---- MODULE Spec2Model ----
(***************************************************************************)
(* db.py: the balance ledger (user_balances) and the referral store        *)
(* (referrals) behind an asyncpg pool.  Every coroutine is cut at its      *)
(* awaits: the synchronous prefix up to the first statement is one step,   *)
(* each SQL statement is one atomic step.  Tasks run one call each and     *)
(* interleave freely between steps.                                        *)
(*                                                                         *)
(* Money is held as integers.  A NUMERIC column counts the smallest unit   *)
(* it can hold (NUMERIC(12,2): kopecks, NUMERIC(12,6): micro-USDT).  A     *)
(* Python float, and a statement parameter, counts tenths of that unit, so *)
(* that round(amount, digits) and the rounding of a column assignment have *)
(* something to round: 10 is one unit, 4 is less than half a unit.         *)
(***************************************************************************)
EXTENDS Integers, FiniteSets, Sequences, TLC

NumTasks == 2
MaxInit == 1

Tasks == 1..NumTasks
Users == {"u1", "u2"}
\* amounts: negative, zero, below half a unit, one unit, two units
Amounts == {-10, 0, 4, 10, 20}

VARIABLES
    _pool,          \* "None", "open" or "closed"
    _db_enabled,    \* BOOLEAN
    user_balances,  \* table user_balances: user_id -> row or NoRow
    referrals,      \* table referrals: user_id -> row or NoRow
    balances0,      \* user_balances as it was before the first call
    referrals0,     \* referrals as it was before the first call
    pc,             \* per task: the await the coroutine is suspended at
    call,           \* per task: the coroutine called and its arguments
    amount,         \* per task: the local `amount` after round()
    ret             \* per task: the value returned

vars == <<_pool, _db_enabled, user_balances, referrals, balances0, referrals0,
          pc, call, amount, ret>>
poolVars == <<_pool, _db_enabled>>
refVars == <<referrals, referrals0>>
balVars == <<user_balances, balances0, amount>>

----------------------------------------------------------------------------
(* Values *)

NULL == "NULL"
NoRow == [exists |-> FALSE]
NoCall == [op |-> "none", user_id |-> NULL]

BalanceRow(rub, usdt) == [balance_rub |-> rub, balance_usdt |-> usdt]

\* Python return values, tagged so that values of different types compare
None == [tag |-> "None"]
Bool(b) == [tag |-> "bool", val |-> b]
BalanceDict(rub, usdt) == [tag |-> "dict", balance_rub |-> rub, balance_usdt |-> usdt]
Running == [tag |-> "running"]

\* CHECK (balance_rub >= 0), CHECK (balance_usdt >= 0).  No action uses it
\* as a guard: the statements below are modelled without the constraint, so
\* that NonNegativeBalances shows they never attempt a write it would reject.
user_balances_check(row) ==
    row.balance_rub >= 0 /\ row.balance_usdt >= 0

\* round(amount, 2) / round(amount, 6): the float nearest to a whole number
\* of units, an exact tie going to the even neighbour
round(x) ==
    LET q == x \div 10
        r == x % 10
    IN  IF r < 5 THEN 10 * q
        ELSE IF r > 5 THEN 10 * (q + 1)
        ELSE IF q % 2 = 0 THEN 10 * q ELSE 10 * (q + 1)

\* float(v) of a NUMERIC column value
float(v) ==
    10 * v

\* float(v or 0) of a NUMERIC column value: a falsy value (Decimal 0) is
\* replaced by 0
float_or_0(v) ==
    IF v = 0 THEN 0 ELSE float(v)

\* the value a NUMERIC(12,2) / NUMERIC(12,6) column keeps of the numeric x
\* assigned to it: rounded to the column's scale, a tie away from zero
numeric(x) ==
    IF x >= 0 THEN (x + 5) \div 10 ELSE -((5 - x) \div 10)

----------------------------------------------------------------------------
(* The statements on user_balances, as functions of the table.  $2 is the *)
(* float the coroutine passes; the arithmetic is exact and the result is   *)
(* rounded when it is assigned to the column.                              *)

\* mutant: DO UPDATE SET balance_rub = EXCLUDED.balance_rub
balance_add_rub_sql_overwrite(tbl, user_id, amt) ==
    IF tbl[user_id] = NoRow
    THEN [tbl EXCEPT ![user_id] = BalanceRow(numeric(amt), 0)]
    ELSE [tbl EXCEPT ![user_id].balance_rub = numeric(amt)]

\* mutant: VALUES ($1, $2, $2)
balance_add_rub_sql_both(tbl, user_id, amt) ==
    IF tbl[user_id] = NoRow
    THEN [tbl EXCEPT ![user_id] = BalanceRow(numeric(amt), numeric(amt))]
    ELSE [tbl EXCEPT ![user_id].balance_rub = numeric(float(@) + amt)]

\* INSERT ... VALUES ($1, $2, 0) ON CONFLICT (user_id) DO UPDATE SET
\*   balance_rub = user_balances.balance_rub + EXCLUDED.balance_rub
balance_add_rub_sql(tbl, user_id, amt) ==
    IF tbl[user_id] = NoRow
    THEN [tbl EXCEPT ![user_id] = BalanceRow(numeric(amt), 0)]
    ELSE [tbl EXCEPT ![user_id].balance_rub = numeric(float(@) + amt)]

\* mutant: DO UPDATE SET balance_rub = user_balances.balance_rub + EXCLUDED.balance_usdt
balance_add_usdt_sql_rub(tbl, user_id, amt) ==
    IF tbl[user_id] = NoRow
    THEN [tbl EXCEPT ![user_id] = BalanceRow(0, numeric(amt))]
    ELSE [tbl EXCEPT ![user_id].balance_rub = numeric(float(@) + amt)]

\* INSERT ... VALUES ($1, 0, $2) ON CONFLICT (user_id) DO UPDATE SET
\*   balance_usdt = user_balances.balance_usdt + EXCLUDED.balance_usdt
balance_add_usdt_sql(tbl, user_id, amt) ==
    IF tbl[user_id] = NoRow
    THEN [tbl EXCEPT ![user_id] = BalanceRow(0, numeric(amt))]
    ELSE [tbl EXCEPT ![user_id].balance_usdt = numeric(float(@) + amt)]

\* mutant: WHERE user_id = $1
deduct_rub_where_any(row, amt) ==
    row # NoRow

\* mutant: WHERE user_id = $1 AND balance_rub > $2
deduct_rub_where_strict(row, amt) ==
    row # NoRow /\ float(row.balance_rub) > amt

\* WHERE user_id = $1 AND balance_rub >= $2
deduct_rub_where(row, amt) ==
    row # NoRow /\ float(row.balance_rub) >= amt

\* mutant: WHERE user_id = $1
deduct_usdt_where_any(row, amt) ==
    row # NoRow

\* mutant: WHERE user_id = $1 AND balance_usdt <= $2
deduct_usdt_where_inverted(row, amt) ==
    row # NoRow /\ float(row.balance_usdt) <= amt

\* WHERE user_id = $1 AND balance_usdt >= $2
deduct_usdt_where(row, amt) ==
    row # NoRow /\ float(row.balance_usdt) >= amt

\* UPDATE user_balances SET balance_rub = balance_rub - $2 WHERE ...
balance_deduct_rub_sql(tbl, user_id, amt) ==
    IF deduct_rub_where(tbl[user_id], amt)
    THEN [tbl EXCEPT ![user_id].balance_rub = numeric(float(@) - amt)]
    ELSE tbl

\* UPDATE user_balances SET balance_usdt = balance_usdt - $2 WHERE ...
balance_deduct_usdt_sql(tbl, user_id, amt) ==
    IF deduct_usdt_where(tbl[user_id], amt)
    THEN [tbl EXCEPT ![user_id].balance_usdt = numeric(float(@) - amt)]
    ELSE tbl

\* mutant: if not _db_enabled or amount < 0
add_rejects_negative(a) ==
    ~_db_enabled \/ a < 0

\* if not _db_enabled or amount <= 0: return False
add_rejects(a) ==
    ~_db_enabled \/ a <= 0

\* if not _db_enabled or amount <= 0: return None
deduct_rejects(a) ==
    ~_db_enabled \/ a <= 0

----------------------------------------------------------------------------
(* Task bookkeeping *)

Start(t, c) ==
    /\ pc[t] = "idle"
    /\ call' = [call EXCEPT ![t] = c]

Return(t, v) ==
    /\ ret' = [ret EXCEPT ![t] = v]
    /\ pc' = [pc EXCEPT ![t] = "done"]

Goto(t, label) ==
    /\ pc' = [pc EXCEPT ![t] = label]
    /\ ret' = ret

\* an exception that leaves the coroutine
Raised(exc) == [tag |-> "raise", exc |-> exc]

\* async with _pool.acquire() as conn, up to the first statement: without a
\* pool the attribute lookup on None fails, a pool that is closing or closed
\* refuses, and otherwise the task goes on holding a connection
Acquire(t, label) ==
    IF _pool = "None" THEN Return(t, Raised("AttributeError"))
    ELSE IF _pool = "closed" THEN Return(t, Raised("InterfaceError"))
    ELSE Goto(t, label)

----------------------------------------------------------------------------
(* balance_get *)

balance_get_call(t, user_id) ==
    /\ Start(t, [op |-> "balance_get", user_id |-> user_id])
    /\ IF ~_db_enabled
       THEN Return(t, BalanceDict(0, 0))
       ELSE Acquire(t, "balance_get_fetchrow")
    /\ UNCHANGED <<poolVars, refVars, user_balances, balances0, amount>>

balance_get_fetchrow(t) ==
    /\ pc[t] = "balance_get_fetchrow"
    /\ LET row == user_balances[call[t].user_id]
       IN  IF row = NoRow
           THEN Return(t, BalanceDict(0, 0))
           ELSE Return(t, BalanceDict(float_or_0(row.balance_rub),
                                      float_or_0(row.balance_usdt)))
    /\ UNCHANGED <<poolVars, refVars, user_balances, balances0, call, amount>>

(* balance_add_rub *)

balance_add_rub_call(t, user_id, a) ==
    /\ Start(t, [op |-> "balance_add_rub", user_id |-> user_id, amount |-> a])
    /\ IF add_rejects(a)
       THEN Return(t, Bool(FALSE)) /\ amount' = amount
       ELSE Acquire(t, "balance_add_rub_execute")
            /\ amount' = [amount EXCEPT ![t] = round(a)]
    /\ UNCHANGED <<poolVars, refVars, user_balances, balances0>>

balance_add_rub_execute(t) ==
    /\ pc[t] = "balance_add_rub_execute"
    /\ user_balances' = balance_add_rub_sql(user_balances, call[t].user_id, amount[t])
    /\ Return(t, Bool(TRUE))
    /\ UNCHANGED <<poolVars, refVars, balances0, call, amount>>

(* balance_add_usdt *)

balance_add_usdt_call(t, user_id, a) ==
    /\ Start(t, [op |-> "balance_add_usdt", user_id |-> user_id, amount |-> a])
    /\ IF add_rejects(a)
       THEN Return(t, Bool(FALSE)) /\ amount' = amount
       ELSE Acquire(t, "balance_add_usdt_execute")
            /\ amount' = [amount EXCEPT ![t] = round(a)]
    /\ UNCHANGED <<poolVars, refVars, user_balances, balances0>>

balance_add_usdt_execute(t) ==
    /\ pc[t] = "balance_add_usdt_execute"
    /\ user_balances' = balance_add_usdt_sql(user_balances, call[t].user_id, amount[t])
    /\ Return(t, Bool(TRUE))
    /\ UNCHANGED <<poolVars, refVars, balances0, call, amount>>

(* balance_deduct_rub *)

balance_deduct_rub_call(t, user_id, a) ==
    /\ Start(t, [op |-> "balance_deduct_rub", user_id |-> user_id, amount |-> a])
    /\ IF deduct_rejects(a)
       THEN Return(t, None) /\ amount' = amount
       ELSE Acquire(t, "balance_deduct_rub_update")
            /\ amount' = [amount EXCEPT ![t] = round(a)]
    /\ UNCHANGED <<poolVars, refVars, user_balances, balances0>>

\* UPDATE ... RETURNING balance_rub, balance_usdt; `if not row` goes on to
\* the SELECT, otherwise the new balance is returned
balance_deduct_rub_update(t) ==
    /\ pc[t] = "balance_deduct_rub_update"
    /\ user_balances' = balance_deduct_rub_sql(user_balances, call[t].user_id, amount[t])
    /\ IF deduct_rub_where(user_balances[call[t].user_id], amount[t])
       THEN LET row == user_balances'[call[t].user_id]
            IN  Return(t, BalanceDict(float(row.balance_rub),
                                      float_or_0(row.balance_usdt)))
       ELSE Goto(t, "balance_deduct_rub_select")
    /\ UNCHANGED <<poolVars, refVars, balances0, call, amount>>

\* the SELECT after a failed UPDATE; its row is dropped and None returned
balance_deduct_rub_select(t) ==
    /\ pc[t] = "balance_deduct_rub_select"
    /\ Return(t, None)
    /\ UNCHANGED <<poolVars, refVars, user_balances, balances0, call, amount>>

(* balance_deduct_usdt *)

balance_deduct_usdt_call(t, user_id, a) ==
    /\ Start(t, [op |-> "balance_deduct_usdt", user_id |-> user_id, amount |-> a])
    /\ IF deduct_rejects(a)
       THEN Return(t, None) /\ amount' = amount
       ELSE Acquire(t, "balance_deduct_usdt_update")
            /\ amount' = [amount EXCEPT ![t] = round(a)]
    /\ UNCHANGED <<poolVars, refVars, user_balances, balances0>>

balance_deduct_usdt_update(t) ==
    /\ pc[t] = "balance_deduct_usdt_update"
    /\ user_balances' = balance_deduct_usdt_sql(user_balances, call[t].user_id, amount[t])
    /\ IF deduct_usdt_where(user_balances[call[t].user_id], amount[t])
       THEN LET row == user_balances'[call[t].user_id]
            IN  Return(t, BalanceDict(float_or_0(row.balance_rub),
                                      float(row.balance_usdt)))
       ELSE Return(t, None)
    /\ UNCHANGED <<poolVars, refVars, balances0, call, amount>>

----------------------------------------------------------------------------
(* The balance ledger under concurrent tasks *)

\* the rows a user may hold before the first call: none, or MaxInit units
\* split between the two currencies
InitBalanceRows ==
    {NoRow} \cup {BalanceRow(v, MaxInit - v) : v \in 0..MaxInit}

InitTasks ==
    /\ pc = [t \in Tasks |-> "idle"]
    /\ call = [t \in Tasks |-> NoCall]
    /\ amount = [t \in Tasks |-> 0]
    /\ ret = [t \in Tasks |-> Running]

\* init_pool() has returned True
InitPool ==
    _pool = "open" /\ _db_enabled = TRUE

Init ==
    /\ InitPool
    /\ \E row \in InitBalanceRows : user_balances = [u \in Users |-> row]
    /\ balances0 = user_balances
    /\ referrals = [u \in Users |-> NoRow]
    /\ referrals0 = referrals
    /\ InitTasks

Next ==
    \/ \E t \in Tasks, u \in Users : balance_get_call(t, u)
    \/ \E t \in Tasks : balance_get_fetchrow(t)
    \/ \E t \in Tasks, u \in Users, a \in Amounts : balance_add_rub_call(t, u, a)
    \/ \E t \in Tasks : balance_add_rub_execute(t)
    \/ \E t \in Tasks, u \in Users, a \in Amounts : balance_add_usdt_call(t, u, a)
    \/ \E t \in Tasks : balance_add_usdt_execute(t)
    \/ \E t \in Tasks, u \in Users, a \in Amounts : balance_deduct_rub_call(t, u, a)
    \/ \E t \in Tasks : balance_deduct_rub_update(t)
    \/ \E t \in Tasks : balance_deduct_rub_select(t)
    \/ \E t \in Tasks, u \in Users, a \in Amounts : balance_deduct_usdt_call(t, u, a)
    \/ \E t \in Tasks : balance_deduct_usdt_update(t)

Spec == Init /\ [][Next]_vars

----------------------------------------------------------------------------
(* The referral store *)

\* the ids a parent column may hold: the users, and a referrer outside them
Referrers == Users \cup {"u0"}

\* json.dumps(list) and json.loads(text): a JSON text is held as the list it
\* spells, wrapped
json_dumps(list) == [json |-> list]
json_loads(text) == text.json

\* a row of referrals; updated_at is left out
RefRow(p1, p2, p3, l1, l2, l3, earned, volume, username, first_name) ==
    [parent1 |-> p1, parent2 |-> p2, parent3 |-> p3,
     referrals_l1 |-> l1, referrals_l2 |-> l2, referrals_l3 |-> l3,
     earned_rub |-> earned, volume_rub |-> volume,
     username |-> username, first_name |-> first_name]

\* the row INSERT INTO referrals (user_id, referrals_l1, referrals_l2,
\* referrals_l3) VALUES ($1, '[]', '[]', '[]') makes, with the column defaults
DefaultRefRow ==
    RefRow(NULL, NULL, NULL, json_dumps(<<>>), json_dumps(<<>>), json_dumps(<<>>),
           0, 0, "", "")

\* the dict ref_get_or_create falls back to when its second SELECT finds no
\* row
DefaultRefDict ==
    [tag |-> "dict", parent1 |-> NULL, parent2 |-> NULL, parent3 |-> NULL,
     referrals_l1 |-> <<>>, referrals_l2 |-> <<>>, referrals_l3 |-> <<>>,
     earned_rub |-> 0, volume_rub |-> 0]

\* mutant: without the isinstance(v, str) branch a JSONB text falls to the
\* last branch, which makes it []
_row_to_ref_no_str_branch(row) ==
    [tag |-> "dict",
     parent1 |-> row.parent1, parent2 |-> row.parent2, parent3 |-> row.parent3,
     referrals_l1 |-> <<>>, referrals_l2 |-> <<>>, referrals_l3 |-> <<>>,
     earned_rub |-> float_or_0(row.earned_rub),
     volume_rub |-> float_or_0(row.volume_rub),
     username |-> row.username, first_name |-> row.first_name]

\* asyncpg hands a JSONB column over as its text: the isinstance(v, str)
\* branch decodes it
_row_to_ref(row) ==
    [tag |-> "dict",
     parent1 |-> row.parent1, parent2 |-> row.parent2, parent3 |-> row.parent3,
     referrals_l1 |-> json_loads(row.referrals_l1),
     referrals_l2 |-> json_loads(row.referrals_l2),
     referrals_l3 |-> json_loads(row.referrals_l3),
     earned_rub |-> float_or_0(row.earned_rub),
     volume_rub |-> float_or_0(row.volume_rub),
     username |-> row.username, first_name |-> row.first_name]

\* data.get(k) or "" for the two text fields, which the fallback dict lacks
get_text(data, k) ==
    IF k \in DOMAIN data THEN data[k] ELSE ""

\* mutant: ON CONFLICT (user_id) DO UPDATE SET every column to its default
ref_get_or_create_sql_replace(tbl, user_id) ==
    [tbl EXCEPT ![user_id] = DefaultRefRow]

\* mutant: the INSERT is left out
ref_get_or_create_sql_noop(tbl, user_id) ==
    tbl

\* INSERT ... (user_id) ... ON CONFLICT (user_id) DO NOTHING
ref_get_or_create_sql(tbl, user_id) ==
    IF tbl[user_id] = NoRow
    THEN [tbl EXCEPT ![user_id] = DefaultRefRow]
    ELSE tbl

\* INSERT ... VALUES ($1, ..., $11) ON CONFLICT (user_id) DO UPDATE SET every
\* column = EXCLUDED's: the row becomes what data says, inserted or not
ref_save_sql(tbl, user_id, data) ==
    [tbl EXCEPT ![user_id] =
        RefRow(data.parent1, data.parent2, data.parent3,
               json_dumps(data.referrals_l1),
               json_dumps(data.referrals_l2),
               json_dumps(data.referrals_l3),
               numeric(data.earned_rub), numeric(data.volume_rub),
               get_text(data, "username"), get_text(data, "first_name"))]

\* mutant: an upsert, the row is made of the deltas when there is none
ref_add_earned_sql_upsert(tbl, user_id, volume_delta, earned_delta) ==
    IF tbl[user_id] = NoRow
    THEN [tbl EXCEPT ![user_id] =
            [DefaultRefRow EXCEPT !.volume_rub = numeric(volume_delta),
                                  !.earned_rub = numeric(earned_delta)]]
    ELSE [tbl EXCEPT
            ![user_id].volume_rub = numeric(float(@) + volume_delta),
            ![user_id].earned_rub = numeric(float(@) + earned_delta)]

\* mutant: $2 and $3 change places
ref_add_earned_sql_swapped(tbl, user_id, volume_delta, earned_delta) ==
    IF tbl[user_id] = NoRow
    THEN tbl
    ELSE [tbl EXCEPT
            ![user_id].volume_rub = numeric(float(@) + earned_delta),
            ![user_id].earned_rub = numeric(float(@) + volume_delta)]

\* mutant: only volume_rub is assigned
ref_add_earned_sql_volume_only(tbl, user_id, volume_delta, earned_delta) ==
    IF tbl[user_id] = NoRow
    THEN tbl
    ELSE [tbl EXCEPT ![user_id].volume_rub = numeric(float(@) + volume_delta)]

\* UPDATE referrals SET volume_rub = volume_rub + $2,
\*   earned_rub = earned_rub + $3 WHERE user_id = $1
ref_add_earned_sql(tbl, user_id, volume_delta, earned_delta) ==
    IF tbl[user_id] = NoRow
    THEN tbl
    ELSE [tbl EXCEPT
            ![user_id].volume_rub = numeric(float(@) + volume_delta),
            ![user_id].earned_rub = numeric(float(@) + earned_delta)]

\* mutant: volume_rub is assigned too
ref_set_earned_sql_volume(tbl, user_id, earned_rub) ==
    IF tbl[user_id] = NoRow
    THEN tbl
    ELSE [tbl EXCEPT ![user_id].earned_rub = numeric(earned_rub),
                     ![user_id].volume_rub = numeric(earned_rub)]

\* UPDATE referrals SET earned_rub = $2 WHERE user_id = $1
ref_set_earned_sql(tbl, user_id, earned_rub) ==
    IF tbl[user_id] = NoRow
    THEN tbl
    ELSE [tbl EXCEPT ![user_id].earned_rub = numeric(earned_rub)]

(* ref_get_or_create *)

ref_get_or_create_call(t, user_id) ==
    /\ Start(t, [op |-> "ref_get_or_create", user_id |-> user_id])
    /\ IF ~_db_enabled
       THEN Return(t, None)
       ELSE Acquire(t, "ref_get_or_create_select")
    /\ UNCHANGED <<poolVars, refVars, balVars>>

ref_get_or_create_select(t) ==
    /\ pc[t] = "ref_get_or_create_select"
    /\ LET row == referrals[call[t].user_id]
       IN  IF row # NoRow
           THEN Return(t, _row_to_ref(row))
           ELSE Goto(t, "ref_get_or_create_insert")
    /\ UNCHANGED <<poolVars, refVars, balVars, call>>

ref_get_or_create_insert(t) ==
    /\ pc[t] = "ref_get_or_create_insert"
    /\ referrals' = ref_get_or_create_sql(referrals, call[t].user_id)
    /\ Goto(t, "ref_get_or_create_reselect")
    /\ UNCHANGED <<poolVars, referrals0, balVars, call>>

ref_get_or_create_reselect(t) ==
    /\ pc[t] = "ref_get_or_create_reselect"
    /\ LET row == referrals[call[t].user_id]
       IN  IF row # NoRow
           THEN Return(t, _row_to_ref(row))
           ELSE Return(t, DefaultRefDict)
    /\ UNCHANGED <<poolVars, refVars, balVars, call>>

(* ref_save *)

ref_save_call(t, user_id, data) ==
    /\ Start(t, [op |-> "ref_save", user_id |-> user_id, data |-> data,
                 enrollment |-> FALSE])
    /\ IF ~_db_enabled
       THEN Return(t, None)
       ELSE Acquire(t, "ref_save_execute")
    /\ UNCHANGED <<poolVars, refVars, balVars>>

ref_save_execute(t) ==
    /\ pc[t] = "ref_save_execute"
    /\ referrals' = ref_save_sql(referrals, call[t].user_id, call[t].data)
    /\ Return(t, None)
    /\ UNCHANGED <<poolVars, referrals0, balVars, call>>

\* the enrollment of a user under a referrer: the record ref_get_or_create
\* returned, with parent1 set
enroll_data(record, referrer) ==
    [record EXCEPT !.parent1 = referrer]

\* the caller of an enrollment: it holds the record its ref_get_or_create
\* returned and, if that record has no parent yet, links it under the
\* referrer and passes it to ref_save
enroll_ref_save_call(t, referrer) ==
    /\ pc[t] = "done"
    /\ call[t].op = "ref_get_or_create"
    /\ ret[t].tag = "dict"
    /\ ret[t].parent1 = NULL
    /\ referrer # call[t].user_id
    /\ call' = [call EXCEPT ![t] =
                  [op |-> "ref_save", user_id |-> call[t].user_id,
                   data |-> enroll_data(ret[t], referrer), enrollment |-> TRUE]]
    /\ IF ~_db_enabled
       THEN Return(t, None)
       ELSE IF _pool # "open"
       THEN Acquire(t, "ref_save_execute")
       ELSE /\ pc' = [pc EXCEPT ![t] = "ref_save_execute"]
            /\ ret' = [ret EXCEPT ![t] = Running]
    /\ UNCHANGED <<poolVars, refVars, balVars>>

(* ref_add_earned *)

ref_add_earned_call(t, user_id, volume_delta, earned_delta) ==
    /\ Start(t, [op |-> "ref_add_earned", user_id |-> user_id,
                 volume_delta |-> volume_delta, earned_delta |-> earned_delta])
    /\ IF ~_db_enabled
       THEN Return(t, None)
       ELSE Acquire(t, "ref_add_earned_execute")
    /\ UNCHANGED <<poolVars, refVars, balVars>>

ref_add_earned_execute(t) ==
    /\ pc[t] = "ref_add_earned_execute"
    /\ referrals' = ref_add_earned_sql(referrals, call[t].user_id,
                                       call[t].volume_delta, call[t].earned_delta)
    /\ Return(t, None)
    /\ UNCHANGED <<poolVars, referrals0, balVars, call>>

(* ref_set_earned *)

ref_set_earned_call(t, user_id, earned_rub) ==
    /\ Start(t, [op |-> "ref_set_earned", user_id |-> user_id,
                 earned_rub |-> earned_rub])
    /\ IF ~_db_enabled
       THEN Return(t, None)
       ELSE Acquire(t, "ref_set_earned_execute")
    /\ UNCHANGED <<poolVars, refVars, balVars>>

ref_set_earned_execute(t) ==
    /\ pc[t] = "ref_set_earned_execute"
    /\ referrals' = ref_set_earned_sql(referrals, call[t].user_id, call[t].earned_rub)
    /\ Return(t, None)
    /\ UNCHANGED <<poolVars, referrals0, balVars, call>>

----------------------------------------------------------------------------
(* The referral store under concurrent tasks *)

\* the rows a user may hold before the first call: none, the row of a first
\* touch, or the row of a user enrolled under u0 with MaxInit units earned on
\* twice that volume
InitRefRows ==
    {NoRow, DefaultRefRow,
     RefRow("u0", NULL, NULL, json_dumps(<<>>), json_dumps(<<>>), json_dumps(<<>>),
            MaxInit, 2 * MaxInit, "name", "")}

\* the records passed to ref_save by a caller that did not read first: one
\* per user as parent1, with a referral, 1 unit earned on a volume of 1.4
RefData ==
    {[tag |-> "dict", parent1 |-> p, parent2 |-> "u0", parent3 |-> NULL,
      referrals_l1 |-> <<"u0">>, referrals_l2 |-> <<>>, referrals_l3 |-> <<>>,
      earned_rub |-> 10, volume_rub |-> 14,
      username |-> "name", first_name |-> ""] : p \in Users}

\* (volume_delta, earned_delta): nothing, a purchase of 2 units at 50% and
\* at 3%, and a negative pair
AccrualDeltas == {<<0, 0>>, <<20, 10>>, <<20, 6>>, <<-10, -10>>}

EarnedValues == {0, 10}

RefInit ==
    /\ InitPool
    /\ user_balances = [u \in Users |-> NoRow]
    /\ balances0 = user_balances
    /\ \E row \in InitRefRows : referrals = [u \in Users |-> row]
    /\ referrals0 = referrals
    /\ InitTasks

RefNext ==
    \/ \E t \in Tasks, u \in Users : ref_get_or_create_call(t, u)
    \/ \E t \in Tasks : ref_get_or_create_select(t)
    \/ \E t \in Tasks : ref_get_or_create_insert(t)
    \/ \E t \in Tasks : ref_get_or_create_reselect(t)
    \/ \E t \in Tasks, u \in Users :
          \E data \in {d \in RefData : d.parent1 # u} : ref_save_call(t, u, data)
    \/ \E t \in Tasks, r \in Referrers : enroll_ref_save_call(t, r)
    \/ \E t \in Tasks : ref_save_execute(t)
    \/ \E t \in Tasks, u \in Users, d \in AccrualDeltas :
          ref_add_earned_call(t, u, d[1], d[2])
    \/ \E t \in Tasks : ref_add_earned_execute(t)
    \/ \E t \in Tasks, u \in Users, e \in EarnedValues : ref_set_earned_call(t, u, e)
    \/ \E t \in Tasks : ref_set_earned_execute(t)

SpecRef == RefInit /\ [][RefNext]_vars

----------------------------------------------------------------------------
(* The accrual engine over the referral store: accrue(buyer, amount,       *)
(* schedule) loads the buyer's record and calls ref_add_earned once per     *)
(* ancestor, level 1, 2, 3.  The engine is the caller of db.py; its steps   *)
(* follow the design's description, ref_add_earned is the coroutine above.  *)

\* the commission schedule, in percent per level
schedule == <<10, 5, 2>>

\* the buyer, the three ancestors and a user that was never enrolled
Buyer == "U"
Chain == <<"A", "B", "C">>
Stranger == "N"
AccrueUsers == {Buyer, Stranger} \cup {Chain[k] : k \in 1..3}

\* purchase amounts: none, a quarter unit of rub (25 kopecks, with shares of
\* 2.5, 1.25 and 0.5 kopecks) and one rub
Purchases == {0, 250, 1000}

\* purchase_amount * schedule[level] rounded to 2 fractional digits: the
\* product counts thousandths of a kopeck, the result is a float
commission(purchase_amount, level) ==
    LET n == purchase_amount * schedule[level]
        q == n \div 1000
        r == n % 1000
    IN  IF r < 500 THEN float(q)
        ELSE IF r > 500 THEN float(q + 1)
        ELSE IF q % 2 = 0 THEN float(q) ELSE float(q + 1)

\* the ancestor of the loaded record at a level
parent(record, level) ==
    IF level = 1 THEN record.parent1
    ELSE IF level = 2 THEN record.parent2 ELSE record.parent3

accrue_call(t, buyer_id, purchase_amount) ==
    /\ Start(t, [op |-> "accrue", user_id |-> buyer_id,
                 purchase_amount |-> purchase_amount, record |-> None, level |-> 0])
    /\ IF purchase_amount <= 0
       THEN Return(t, None)
       ELSE Goto(t, "accrue_load")
    /\ UNCHANGED <<poolVars, refVars, balVars>>

\* step 1: the buyer's record is read, and none is made if there is none
accrue_load(t) ==
    /\ pc[t] = "accrue_load"
    /\ LET row == referrals[call[t].user_id]
       IN  IF row = NoRow
           THEN Return(t, None) /\ call' = call
           ELSE /\ call' = [call EXCEPT ![t].record = _row_to_ref(row),
                                        ![t].level = 1]
                /\ Goto(t, "accrue_add")
    /\ UNCHANGED <<poolVars, refVars, balVars>>

\* steps 2 and 3 for one level: where the record has a parent, await
\* ref_add_earned(parent, purchase_amount, commission), the coroutine's
\* _db_enabled test and its UPDATE
accrue_add(t) ==
    /\ pc[t] = "accrue_add"
    /\ LET level == call[t].level
           ancestor == parent(call[t].record, level)
       IN  /\ IF ancestor = NULL \/ ~_db_enabled
              THEN referrals' = referrals
              ELSE referrals' = ref_add_earned_sql(referrals, ancestor,
                                    call[t].purchase_amount,
                                    commission(call[t].purchase_amount, level))
           /\ IF level = 3
              THEN Return(t, None) /\ call' = call
              ELSE /\ call' = [call EXCEPT ![t].level = level + 1]
                   /\ Goto(t, "accrue_add")
    /\ UNCHANGED <<poolVars, referrals0, balVars>>

\* a referral tree U -> A -> B -> C, each record holding its own chain,
\* every ancestor with MaxInit kopecks earned on twice that volume; the
\* stranger has no record; U, A and N hold a balance row
AccrueRow(p1, p2, p3) ==
    RefRow(p1, p2, p3, json_dumps(<<>>), json_dumps(<<>>), json_dumps(<<>>),
           MaxInit, 2 * MaxInit, "name", "")

AccrueInit ==
    /\ InitPool
    /\ \E row \in InitBalanceRows :
          user_balances = [u \in AccrueUsers |->
                             IF u \in {Buyer, Chain[1], Stranger} THEN row ELSE NoRow]
    /\ balances0 = user_balances
    /\ referrals = [u \in AccrueUsers |->
          IF u = Buyer THEN AccrueRow(Chain[1], Chain[2], Chain[3])
          ELSE IF u = Chain[1] THEN AccrueRow(Chain[2], Chain[3], NULL)
          ELSE IF u = Chain[2] THEN AccrueRow(Chain[3], NULL, NULL)
          ELSE IF u = Chain[3] THEN AccrueRow(NULL, NULL, NULL)
          ELSE NoRow]
    /\ referrals0 = referrals
    /\ InitTasks

AccrueNext ==
    \/ \E t \in Tasks, u \in {Buyer, Chain[1], Stranger}, p \in Purchases :
          accrue_call(t, u, p)
    \/ \E t \in Tasks : accrue_load(t)
    \/ \E t \in Tasks : accrue_add(t)

SpecAccrue == AccrueInit /\ [][AccrueNext]_vars

----------------------------------------------------------------------------
(* The pool lifecycle: init_pool and close_pool, cut at their awaits, next  *)
(* to calls of the store's coroutines.  close() is not made to wait for the *)
(* connections that are held, so close_pool may resume at any time.         *)

\* DATABASE_URL: unset, or set
Urls == {"", "postgres://db"}

\* up to the await of asyncpg.create_pool: no url, or no asyncpg to import,
\* returns False
init_pool_call(t, url, asyncpg_installed) ==
    /\ Start(t, [op |-> "init_pool", user_id |-> NULL])
    /\ IF url = "" \/ ~asyncpg_installed
       THEN Return(t, Bool(FALSE))
       ELSE Goto(t, "init_pool_create_pool")
    /\ UNCHANGED <<poolVars, refVars, balVars>>

\* create_pool has raised, or _pool is the new pool and _ensure_schema has
\* taken a connection from it
init_pool_create_pool(t, created) ==
    /\ pc[t] = "init_pool_create_pool"
    /\ IF created
       THEN _pool' = "open" /\ Goto(t, "init_pool_ensure_schema")
       ELSE _pool' = _pool /\ Return(t, Bool(FALSE))
    /\ UNCHANGED <<_db_enabled, refVars, balVars, call>>

\* _ensure_schema has raised, or it has made the tables that were missing
\* and _db_enabled is set
init_pool_ensure_schema(t, bootstrapped) ==
    /\ pc[t] = "init_pool_ensure_schema"
    /\ IF bootstrapped
       THEN _db_enabled' = TRUE /\ Return(t, Bool(TRUE))
       ELSE _db_enabled' = _db_enabled /\ Return(t, Bool(FALSE))
    /\ UNCHANGED <<_pool, refVars, balVars, call>>

\* _db_enabled = False; if _pool: await _pool.close(), which starts closing
\* the pool at once
close_pool_call(t) ==
    /\ Start(t, [op |-> "close_pool", user_id |-> NULL])
    /\ _db_enabled' = FALSE
    /\ IF _pool # "None"
       THEN _pool' = "closed" /\ Goto(t, "close_pool_close")
       ELSE _pool' = _pool /\ Return(t, None)
    /\ UNCHANGED <<refVars, balVars>>

\* after the await: _pool = None
close_pool_close(t) ==
    /\ pc[t] = "close_pool_close"
    /\ _pool' = "None"
    /\ Return(t, None)
    /\ UNCHANGED <<_db_enabled, refVars, balVars, call>>

\* is_enabled()
is_enabled == _db_enabled

\* the user, the amount, the record, the deltas and the earned value of the
\* store calls made next to the lifecycle
PoolUser == "u1"
PoolAmounts == {10}
PoolRefData == {d \in RefData : d.parent1 # PoolUser}
PoolDeltas == {<<20, 10>>}
PoolEarned == {0}

\* the module has just been loaded, or init_pool() has returned True; every
\* user holds a balance and is enrolled
PoolInit ==
    /\ \/ _pool = "None" /\ _db_enabled = FALSE
       \/ InitPool
    /\ user_balances = [u \in Users |-> BalanceRow(MaxInit, MaxInit)]
    /\ balances0 = user_balances
    /\ referrals = [u \in Users |->
          RefRow("u0", NULL, NULL, json_dumps(<<>>), json_dumps(<<>>),
                 json_dumps(<<>>), MaxInit, 2 * MaxInit, "name", "")]
    /\ referrals0 = referrals
    /\ InitTasks

PoolNext ==
    \/ \E t \in Tasks, url \in Urls, i \in BOOLEAN : init_pool_call(t, url, i)
    \/ \E t \in Tasks, c \in BOOLEAN : init_pool_create_pool(t, c)
    \/ \E t \in Tasks, b \in BOOLEAN : init_pool_ensure_schema(t, b)
    \/ \E t \in Tasks : close_pool_call(t)
    \/ \E t \in Tasks : close_pool_close(t)
    \/ \E t \in Tasks : balance_get_call(t, PoolUser)
    \/ \E t \in Tasks : balance_get_fetchrow(t)
    \/ \E t \in Tasks, a \in PoolAmounts : balance_add_rub_call(t, PoolUser, a)
    \/ \E t \in Tasks : balance_add_rub_execute(t)
    \/ \E t \in Tasks, a \in PoolAmounts : balance_add_usdt_call(t, PoolUser, a)
    \/ \E t \in Tasks : balance_add_usdt_execute(t)
    \/ \E t \in Tasks, a \in PoolAmounts : balance_deduct_rub_call(t, PoolUser, a)
    \/ \E t \in Tasks : balance_deduct_rub_update(t)
    \/ \E t \in Tasks : balance_deduct_rub_select(t)
    \/ \E t \in Tasks, a \in PoolAmounts : balance_deduct_usdt_call(t, PoolUser, a)
    \/ \E t \in Tasks : balance_deduct_usdt_update(t)
    \/ \E t \in Tasks : ref_get_or_create_call(t, PoolUser)
    \/ \E t \in Tasks : ref_get_or_create_select(t)
    \/ \E t \in Tasks, data \in PoolRefData : ref_save_call(t, PoolUser, data)
    \/ \E t \in Tasks : ref_save_execute(t)
    \/ \E t \in Tasks, d \in PoolDeltas : ref_add_earned_call(t, PoolUser, d[1], d[2])
    \/ \E t \in Tasks : ref_add_earned_execute(t)
    \/ \E t \in Tasks, e \in PoolEarned : ref_set_earned_call(t, PoolUser, e)
    \/ \E t \in Tasks : ref_set_earned_execute(t)

SpecPool == PoolInit /\ [][PoolNext]_vars

----------------------------------------------------------------------------
(* Reading the task records *)

Cur == {"rub", "usdt"}
Other(c) == IF c = "rub" THEN "usdt" ELSE "rub"
AddOp(c) == IF c = "rub" THEN "balance_add_rub" ELSE "balance_add_usdt"
DeductOp(c) == IF c = "rub" THEN "balance_deduct_rub" ELSE "balance_deduct_usdt"
MoneyOps == {AddOp(c) : c \in Cur} \cup {DeductOp(c) : c \in Cur}

\* what a row holds in a currency, 0 for a missing row, and what a returned
\* dict says it holds; both counted as the floats are
Field(row, c) ==
    IF row = NoRow THEN 0
    ELSE IF c = "rub" THEN 10 * row.balance_rub ELSE 10 * row.balance_usdt
DictField(d, c) ==
    IF c = "rub" THEN d.balance_rub ELSE d.balance_usdt

CreditCalls(u, c) ==
    {t \in Tasks : call[t].op = AddOp(c) /\ call[t].user_id = u}
DebitCalls(u, c) ==
    {t \in Tasks : call[t].op = DeductOp(c) /\ call[t].user_id = u}
SuccessfulDebits(u, c) ==
    {t \in DebitCalls(u, c) : ret[t].tag = "dict"}
FailedDebits(u, c) ==
    {t \in DebitCalls(u, c) : ret[t] = None}
AppliedCredits(u, c) ==
    {t \in CreditCalls(u, c) : pc[t] = "done" /\ call[t].amount > 0}

\* the sum, over the tasks of S, of the amount each one called with, at the
\* precision of its currency
RECURSIVE SumRounded(_)
SumRounded(S) ==
    IF S = {} THEN 0
    ELSE LET t == CHOOSE x \in S : TRUE
         IN  round(call[t].amount) + SumRounded(S \ {t})

AllDone == \A t \in Tasks : pc[t] = "done"

----------------------------------------------------------------------------
(* C1 *)

\* C1: in every reachable state, whatever credits and debits the tasks have
\* interleaved, every stored balance row has balance_rub >= 0 and
\* balance_usdt >= 0.
NonNegativeBalances ==
    \A u \in Users :
        user_balances[u] # NoRow => user_balances_check(user_balances[u])

\* a credit and a debit of the same user have both gone through, and the
\* debit has taken the balance down to exactly 0
NonNegativeBalancesWitness ==
    \E u \in Users, t1, t2 \in Tasks :
        /\ t1 \in SuccessfulDebits(u, "rub")
        /\ t2 \in CreditCalls(u, "rub") /\ ret[t2] = Bool(TRUE)
        /\ amount[t1] > 0 /\ amount[t2] > 0
        /\ user_balances[u] # NoRow /\ user_balances[u].balance_rub = 0

(* C2 *)

\* C2: for the debit calls of one currency against one user's balance V,
\* with no credit of that currency to that user, the amounts of the debits
\* that returned a balance never sum to more than V; every finished debit
\* has returned a balance or None, and once all calls are finished the
\* successes and the insufficient-funds outcomes add up to the calls made.
DebitsWithinBalance ==
    \A u \in Users, c \in Cur :
        CreditCalls(u, c) = {} =>
            /\ SumRounded(SuccessfulDebits(u, c)) <= Field(balances0[u], c)
            /\ \A t \in DebitCalls(u, c) :
                  pc[t] = "done" => ret[t].tag \in {"dict", "None"}
            /\ (\A t \in DebitCalls(u, c) : pc[t] = "done") =>
                  Cardinality(SuccessfulDebits(u, c)) + Cardinality(FailedDebits(u, c))
                      = Cardinality(DebitCalls(u, c))

\* two debits of a positive amount against the same balance have finished,
\* one with a balance and one with insufficient funds
DebitsWithinBalanceWitness ==
    \E u \in Users, c \in Cur, t1, t2 \in Tasks :
        /\ CreditCalls(u, c) = {}
        /\ t1 \in SuccessfulDebits(u, c) /\ t2 \in FailedDebits(u, c)
        /\ call[t1].amount > 0 /\ call[t2].amount > 0
        /\ pc[t1] = "done" /\ pc[t2] = "done"
        /\ Field(balances0[u], c) > 0

(* C3 *)

\* two finished debits of the same amount a against the balance V of one
\* user and currency that nothing else has touched, with a <= V < 2a
TwoDebits(u, c, t1, t2) ==
    /\ t1 # t2
    /\ {t1, t2} \subseteq DebitCalls(u, c)
    /\ pc[t1] = "done" /\ pc[t2] = "done"
    /\ call[t1].amount > 0 /\ call[t2].amount > 0
    /\ round(call[t1].amount) = round(call[t2].amount)
    /\ round(call[t1].amount) <= Field(balances0[u], c)
    /\ Field(balances0[u], c) < 2 * round(call[t1].amount)
    /\ \A t3 \in Tasks \ {t1, t2} :
          t3 \notin CreditCalls(u, c) \cup DebitCalls(u, c)

TwoDebitsOneFits ==
    \A u \in Users, c \in Cur, t1, t2 \in Tasks :
        TwoDebits(u, c, t1, t2) =>
            LET left == Field(balances0[u], c) - round(call[t1].amount)
            IN  /\ \E w \in {t1, t2} :
                      /\ ret[w].tag = "dict" /\ DictField(ret[w], c) = left
                      /\ \A l \in {t1, t2} \ {w} : ret[l] = None
                /\ Field(user_balances[u], c) = left

\* the UPDATE of a debit matches no row only when the row is absent or its
\* balance is below the amount
DebitFailsOnlyIfShort ==
    \A t \in Tasks :
        LET row == user_balances[call[t].user_id]
        IN  /\ (pc[t] = "balance_deduct_rub_update"
                    /\ pc'[t] = "balance_deduct_rub_select")
                => (row = NoRow \/ 10 * row.balance_rub < amount[t])
            /\ (pc[t] = "balance_deduct_usdt_update" /\ ret'[t] = None)
                => (row = NoRow \/ 10 * row.balance_usdt < amount[t])

\* C3: of two concurrent debits of amount a against a balance V with
\* a <= V < 2a exactly one succeeds and returns V - a, the other returns
\* None and V - a is what stays stored; and a debit returns insufficient
\* funds only if, at its atomic step, the row is absent or the balance is
\* below its amount.
DebitFailsOnlyWhenFundsDoNotFit ==
    []TwoDebitsOneFits /\ [][DebitFailsOnlyIfShort]_vars

DebitFailsOnlyWhenFundsDoNotFitWitness ==
    \E u \in Users, t1, t2 \in Tasks :
        /\ TwoDebits(u, "rub", t1, t2)
        /\ ret[t1].tag = "dict" /\ ret[t2] = None
        /\ Field(user_balances[u], "rub") = Field(balances0[u], "rub") - amount[t1]

(* C4 *)

\* C4: with no debit of that currency to that user, the stored balance is
\* the initial one (0 if there was no row) plus the amounts of all the
\* credits that have run, each at the currency's precision; none is lost,
\* also when the credits race on creating the row.
CreditsNotLost ==
    \A u \in Users, c \in Cur :
        DebitCalls(u, c) = {} =>
            /\ Field(user_balances[u], c)
                  = Field(balances0[u], c) + SumRounded(AppliedCredits(u, c))
            /\ \A t \in AppliedCredits(u, c) : ret[t] = Bool(TRUE)

\* every task has credited the same currency of the same user, who had no
\* row, and all are done
CreditsNotLostWitness ==
    \E u \in Users, c \in Cur :
        /\ balances0[u] = NoRow
        /\ AppliedCredits(u, c) = Tasks
        /\ \A t \in Tasks : round(call[t].amount) > 0
        /\ Field(user_balances[u], c) = SumRounded(Tasks)

(* C5 *)

CreditCreatesRowStep ==
    \A t \in Tasks :
        LET u == call[t].user_id
            row == user_balances[u]
        IN  /\ (pc[t] = "balance_add_rub_execute" /\ pc'[t] = "done" /\ row = NoRow)
                => 10 * user_balances'[u].balance_rub = round(call[t].amount)
                   /\ user_balances'[u].balance_usdt = 0
            /\ (pc[t] = "balance_add_usdt_execute" /\ pc'[t] = "done" /\ row = NoRow)
                => 10 * user_balances'[u].balance_usdt = round(call[t].amount)
                   /\ user_balances'[u].balance_rub = 0
            /\ (pc[t] = "balance_get_fetchrow" /\ pc'[t] = "done" /\ row # NoRow)
                => ret'[t] = BalanceDict(10 * row.balance_rub, 10 * row.balance_usdt)

\* C5: a credit of a > 0 for a user with no balance row creates the row
\* with the credited currency's field equal to a and the other equal to 0,
\* and balance_get returns exactly the stored values.
CreditCreatesRow ==
    [][CreditCreatesRowStep]_vars

\* a rub credit has created the row of a user and a balance_get has
\* returned it
CreditCreatesRowWitness ==
    \E u \in Users, t1, t2 \in Tasks :
        /\ balances0[u] = NoRow
        /\ t1 \in AppliedCredits(u, "rub") /\ round(call[t1].amount) > 0
        /\ user_balances[u] # NoRow
        /\ Field(user_balances[u], "rub") = round(call[t1].amount)
        /\ Field(user_balances[u], "usdt") = 0
        /\ call[t2].op = "balance_get" /\ call[t2].user_id = u
        /\ ret[t2] = BalanceDict(round(call[t1].amount), 0)

(* C6 *)

FailedDebitStep ==
    \A t \in Tasks :
        LET row == user_balances[call[t].user_id]
        IN  /\ (pc[t] = "balance_deduct_rub_update" /\ pc'[t] # pc[t]
                    /\ (row = NoRow \/ 10 * row.balance_rub < amount[t]))
                => /\ user_balances' = user_balances
                   /\ pc'[t] = "balance_deduct_rub_select"
            /\ (pc[t] = "balance_deduct_rub_select" /\ pc'[t] # pc[t])
                => /\ user_balances' = user_balances
                   /\ pc'[t] = "done" /\ ret'[t] = None
            /\ (pc[t] = "balance_deduct_usdt_update" /\ pc'[t] # pc[t]
                    /\ (row = NoRow \/ 10 * row.balance_usdt < amount[t]))
                => /\ user_balances' = user_balances
                   /\ pc'[t] = "done" /\ ret'[t] = None

\* C6: a debit whose amount exceeds the balance of its currency, or whose
\* user has no row, returns None and leaves the whole table as it was: no
\* field of any user changes and no row is created.
FailedDebitChangesNothing ==
    [][FailedDebitStep]_vars

\* a debit of more than the user's row holds has returned None, and the
\* table is the initial one
FailedDebitChangesNothingWitness ==
    \E u \in Users, c \in Cur, t \in Tasks :
        /\ t \in FailedDebits(u, c)
        /\ user_balances[u] # NoRow
        /\ amount[t] > Field(user_balances[u], c)
        /\ user_balances = balances0

(* C7 *)

NonPositiveAmountStep ==
    \A t \in Tasks :
        (pc[t] = "idle" /\ pc'[t] # "idle"
            /\ call'[t].op \in MoneyOps /\ call'[t].amount <= 0)
        => /\ pc'[t] = "done"
           /\ ret'[t] = IF call'[t].op \in {AddOp(c) : c \in Cur}
                        THEN Bool(FALSE) ELSE None
           /\ user_balances' = user_balances

\* C7: a credit or a debit called with amount <= 0 returns its failure
\* value (False, None) in the step of the call, before any statement is
\* issued, and the table is unchanged: no row created, no field changed.
NonPositiveAmountRejected ==
    [][NonPositiveAmountStep]_vars

\* a credit of 0 and a debit of a negative amount have both been turned
\* down
NonPositiveAmountRejectedWitness ==
    \E t1, t2 \in Tasks :
        /\ call[t1].op = "balance_add_rub" /\ call[t1].amount = 0
        /\ ret[t1] = Bool(FALSE)
        /\ call[t2].op = "balance_deduct_rub" /\ call[t2].amount < 0
        /\ ret[t2] = None
        /\ user_balances = balances0

(* C8 *)

\* C8 as claimed: the value a successful credit returns is the balance
\* record stored right after its atomic update.
CreditReturnsBalance ==
    [][\A t \in Tasks :
          (pc[t] \in {"balance_add_rub_execute", "balance_add_usdt_execute"}
              /\ pc'[t] = "done")
          => LET row == user_balances'[call[t].user_id]
             IN  ret'[t] = BalanceDict(10 * row.balance_rub, 10 * row.balance_usdt)]_vars

CreditReturnsTrueStep ==
    \A t \in Tasks, c \in Cur :
        LET u == call[t].user_id
        IN  (pc[t] = AddOp(c) \o "_execute" /\ pc'[t] = "done")
            => /\ ret'[t] = Bool(TRUE)
               /\ user_balances'[u] # NoRow
               /\ Field(user_balances'[u], c)
                     = Field(user_balances[u], c) + round(call[t].amount)
               /\ Field(user_balances'[u], Other(c))
                     = Field(user_balances[u], Other(c))
               /\ \A v \in Users \ {u} : user_balances'[v] = user_balances[v]

\* C8, amended: a successful credit returns True, and the record stored
\* right after its atomic update is the previous one (zero if there was no
\* row) with the amount added to the credited currency and nothing else
\* changed.
CreditReturnsTrue ==
    [][CreditReturnsTrueStep]_vars

\* a usdt credit has returned True on top of an existing row
CreditReturnsTrueWitness ==
    \E u \in Users, t \in Tasks :
        /\ t \in AppliedCredits(u, "usdt") /\ ret[t] = Bool(TRUE)
        /\ balances0[u] # NoRow /\ amount[t] > 0
        /\ Field(user_balances[u], "usdt") = Field(balances0[u], "usdt") + amount[t]

----------------------------------------------------------------------------
(* C9 *)

DoneAccruals(u) ==
    {t \in Tasks : call[t].op = "ref_add_earned" /\ call[t].user_id = u
                   /\ pc[t] = "done"}

\* the tasks have only called ref_add_earned with deltas >= 0,
\* ref_get_or_create and the ref_save of an enrollment on the record of u
OnlyAccrualsAndEnrollments(u) ==
    \A t \in Tasks :
        \/ call[t].op \in {"none", "ref_get_or_create"}
        \/ call[t].user_id # u
        \/ call[t].op = "ref_add_earned"
              /\ call[t].volume_delta >= 0 /\ call[t].earned_delta >= 0
        \/ call[t].op = "ref_save" /\ call[t].enrollment

\* the sums of the deltas of the tasks of S, each as the column keeps it
RECURSIVE SumEarned(_)
SumEarned(S) ==
    IF S = {} THEN 0
    ELSE LET t == CHOOSE x \in S : TRUE
         IN  numeric(call[t].earned_delta) + SumEarned(S \ {t})
RECURSIVE SumVolume(_)
SumVolume(S) ==
    IF S = {} THEN 0
    ELSE LET t == CHOOSE x \in S : TRUE
         IN  numeric(call[t].volume_delta) + SumVolume(S \ {t})

\* C9: whatever the interleaving of ref_add_earned calls on a user's record
\* with enrollment updates of that record (ref_get_or_create, then ref_save
\* of the record it returned, modified), the record's earned and volume are
\* their initial values plus the deltas of the accruals that have run, each
\* counted once.
AccrualsSurviveEnrollment ==
    \A u \in Users :
        (referrals0[u] # NoRow /\ OnlyAccrualsAndEnrollments(u)) =>
            /\ referrals[u].earned_rub
                  = referrals0[u].earned_rub + SumEarned(DoneAccruals(u))
            /\ referrals[u].volume_rub
                  = referrals0[u].volume_rub + SumVolume(DoneAccruals(u))

(* C10 *)

\* C10: a parent1, parent2 or parent3 that is set is not changed by any
\* later step of any store operation.
ParentsImmutable ==
    [][\A u \in Users :
          referrals[u] # NoRow =>
              /\ referrals[u].parent1 # NULL =>
                    (referrals'[u] # NoRow
                        /\ referrals'[u].parent1 = referrals[u].parent1)
              /\ referrals[u].parent2 # NULL =>
                    (referrals'[u] # NoRow
                        /\ referrals'[u].parent2 = referrals[u].parent2)
              /\ referrals[u].parent3 # NULL =>
                    (referrals'[u] # NoRow
                        /\ referrals'[u].parent3 = referrals[u].parent3)]_vars

----------------------------------------------------------------------------
(* C11 *)

GetOrCreateCalls(u) ==
    {t \in Tasks : call[t].op = "ref_get_or_create" /\ call[t].user_id = u}

\* no task has called anything but ref_get_or_create on the record of u
OnlyGetOrCreate(u) ==
    \A t \in Tasks :
        \/ call[t].op \in {"none", "ref_get_or_create"}
        \/ call[t].user_id # u

\* a returned record with no parents, empty lists and nothing earned
ZeroValued(d) ==
    /\ d.tag = "dict"
    /\ d.parent1 = NULL /\ d.parent2 = NULL /\ d.parent3 = NULL
    /\ d.referrals_l1 = <<>> /\ d.referrals_l2 = <<>> /\ d.referrals_l3 = <<>>
    /\ d.earned_rub = 0 /\ d.volume_rub = 0

\* C11: ref_get_or_create calls racing on a user that has no record leave,
\* whatever the order of their SELECT / INSERT / SELECT steps, one stored
\* record for the user, the row of defaults, and every call returns the same
\* zero-valued record.
GetOrCreateRaceOneRecord ==
    \A u \in Users :
        (referrals0[u] = NoRow /\ OnlyGetOrCreate(u)) =>
            /\ referrals[u] \in {NoRow, DefaultRefRow}
            /\ \A t \in GetOrCreateCalls(u) :
                  pc[t] = "done" =>
                      /\ referrals[u] = DefaultRefRow
                      /\ ZeroValued(ret[t])
            /\ \A t1, t2 \in GetOrCreateCalls(u) :
                  (pc[t1] = "done" /\ pc[t2] = "done") => ret[t1] = ret[t2]

\* two calls on the same new user have both passed the first SELECT and
\* both run the INSERT
GetOrCreateRaceOneRecordWitness ==
    \E u \in Users, t1, t2 \in Tasks :
        /\ t1 # t2
        /\ referrals0[u] = NoRow /\ OnlyGetOrCreate(u)
        /\ call[t1] = [op |-> "ref_get_or_create", user_id |-> u]
        /\ call[t2] = call[t1]
        /\ pc[t1] = "ref_get_or_create_reselect"
        /\ pc[t2] = "done"
        /\ referrals[u] = DefaultRefRow

(* C12 *)

\* the step of a ref_add_earned call on a user that has no record
AccrualWithoutRecordStep ==
    \A t \in Tasks :
        (pc[t] = "ref_add_earned_execute" /\ pc'[t] = "done"
           /\ referrals[call[t].user_id] = NoRow) =>
              referrals' = referrals

\* C12: ref_add_earned on a user that has no referral record creates no row
\* for that user and changes no other row.
AccrualWithoutRecordIsNoOp ==
    [][AccrualWithoutRecordStep]_vars

\* an accrual with deltas above zero has run on a user that had, and has, no
\* record
AccrualWithoutRecordIsNoOpWitness ==
    \E t \in Tasks :
        /\ call[t].op = "ref_add_earned" /\ pc[t] = "done"
        /\ call[t].volume_delta > 0 /\ call[t].earned_delta > 0
        /\ referrals0[call[t].user_id] = NoRow
        /\ referrals = referrals0

(* C13 *)

\* no task has called anything but ref_add_earned on the record of u
OnlyAccruals(u) ==
    \A t \in Tasks :
        \/ call[t].op \in {"none", "ref_add_earned"}
        \/ call[t].user_id # u

\* C13: with only ref_add_earned calls on an existing record, the record's
\* earned and volume are in every state the initial values plus the deltas
\* (each as NUMERIC(12,2) keeps it) of one and the same set of calls, the
\* finished ones: no state has a call's volume_delta without its
\* earned_delta, and when all have finished every delta is in.
AccrualAppliesBothDeltas ==
    \A u \in Users :
        (referrals0[u] # NoRow /\ OnlyAccruals(u)) =>
            /\ referrals[u] # NoRow
            /\ referrals[u].earned_rub
                  = referrals0[u].earned_rub + SumEarned(DoneAccruals(u))
            /\ referrals[u].volume_rub
                  = referrals0[u].volume_rub + SumVolume(DoneAccruals(u))

\* two accruals with deltas above zero on the same existing record, one
\* finished and one about to run its UPDATE
AccrualAppliesBothDeltasWitness ==
    \E u \in Users, t1, t2 \in Tasks :
        /\ t1 # t2
        /\ referrals0[u] # NoRow /\ OnlyAccruals(u)
        /\ call[t1].op = "ref_add_earned" /\ call[t1].user_id = u
        /\ call[t2].op = "ref_add_earned" /\ call[t2].user_id = u
        /\ call[t1].earned_delta > 0 /\ call[t2].earned_delta > 0
        /\ pc[t1] = "done" /\ pc[t2] = "ref_add_earned_execute"
        /\ referrals[u].earned_rub > referrals0[u].earned_rub

(* C14 *)

\* C14: a ref_add_earned call with a volume_delta or an earned_delta below
\* zero changes no row, and no ref_add_earned call takes a record's earned
\* or volume down.
NegativeAccrualRejected ==
    [][\A t \in Tasks :
          (pc[t] = "ref_add_earned_execute" /\ pc'[t] = "done") =>
              /\ (call[t].volume_delta < 0 \/ call[t].earned_delta < 0) =>
                    referrals' = referrals
              /\ \A u \in Users :
                    referrals[u] # NoRow =>
                        /\ referrals'[u].earned_rub >= referrals[u].earned_rub
                        /\ referrals'[u].volume_rub >= referrals[u].volume_rub]_vars

(* C15 *)

\* the (task, level) pairs whose ref_add_earned has run for the ancestor x
AppliedShares(x) ==
    {tk \in Tasks \X (1..3) :
        LET t == tk[1]
            k == tk[2]
        IN  /\ call[t].op = "accrue"
            /\ call[t].record # None
            /\ call[t].level > k \/ (call[t].level = 3 /\ pc[t] = "done")
            /\ parent(call[t].record, k) = x}

\* the commissions and the purchase amounts of the pairs of S, in kopecks
RECURSIVE SumCommission(_)
SumCommission(S) ==
    IF S = {} THEN 0
    ELSE LET tk == CHOOSE x \in S : TRUE
         IN  numeric(commission(call[tk[1]].purchase_amount, tk[2]))
                + SumCommission(S \ {tk})
RECURSIVE SumPurchase(_)
SumPurchase(S) ==
    IF S = {} THEN 0
    ELSE LET tk == CHOOSE x \in S : TRUE
         IN  numeric(call[tk[1]].purchase_amount) + SumPurchase(S \ {tk})

\* the commission of a level is purchase_amount * rate to the nearest kopeck
\* (the product counts thousandths of a kopeck)
CommissionIsRounded ==
    \A p \in Purchases, k \in 1..3 :
        LET d == 1000 * numeric(commission(p, k)) - p * schedule[k]
        IN  d <= 500 /\ -d <= 500

\* C15: accrue on a buyer with parent1 = A, parent2 = B, parent3 = C adds to
\* each ancestor's earned the level's share of the purchase (10%, 5%, 2%,
\* rounded to 2 fractional digits) and to each ancestor's volume the
\* purchase amount, once per accrue and level; nothing else of any record
\* changes, no record is made, and no balance row changes.
AccrueCreditsAncestors ==
    /\ CommissionIsRounded
    /\ user_balances = balances0
    /\ \A x \in AccrueUsers :
          IF referrals0[x] = NoRow
          THEN referrals[x] = NoRow
          ELSE /\ referrals[x] # NoRow
               /\ referrals[x].earned_rub
                     = referrals0[x].earned_rub + SumCommission(AppliedShares(x))
               /\ referrals[x].volume_rub
                     = referrals0[x].volume_rub + SumPurchase(AppliedShares(x))
               /\ [referrals[x] EXCEPT !.earned_rub = 0, !.volume_rub = 0]
                     = [referrals0[x] EXCEPT !.earned_rub = 0, !.volume_rub = 0]

\* the accrue of a purchase of 25 kopecks by U has finished: A has 3 (or 2)
\* kopecks more earned, B 1 and C 1 (or 0), each on 25 kopecks more volume
AccrueCreditsAncestorsWitness ==
    \E t \in Tasks :
        /\ call[t].op = "accrue" /\ call[t].user_id = Buyer
        /\ call[t].purchase_amount = 250 /\ pc[t] = "done"
        /\ \A s \in Tasks \ {t} : call[s].op = "none"
        /\ referrals[Chain[1]].earned_rub - referrals0[Chain[1]].earned_rub \in {2, 3}
        /\ referrals[Chain[2]].earned_rub - referrals0[Chain[2]].earned_rub = 1
        /\ referrals[Chain[3]].earned_rub - referrals0[Chain[3]].earned_rub \in {0, 1}
        /\ \A k \in 1..3 :
              referrals[Chain[k]].volume_rub - referrals0[Chain[k]].volume_rub = 25
        /\ referrals[Buyer] = referrals0[Buyer]

(* C16 *)

\* task s has finished a ref_save on the record of u, task t is about to run
\* the first SELECT of a ref_get_or_create on it, and no other task has
\* called anything but ref_get_or_create on it
SaveThenGet(s, t, u) ==
    /\ s # t
    /\ call[s].op = "ref_save" /\ call[s].user_id = u /\ pc[s] = "done"
    /\ call[t].op = "ref_get_or_create" /\ call[t].user_id = u
    /\ pc[t] = "ref_get_or_create_select"
    /\ \A o \in Tasks \ {s, t} :
          call[o].op \in {"none", "ref_get_or_create"} \/ call[o].user_id # u

\* the parents and the lists of the returned record d are those of data
SameLinks(d, data) ==
    /\ d.tag = "dict"
    /\ d.parent1 = data.parent1 /\ d.parent2 = data.parent2
    /\ d.parent3 = data.parent3
    /\ d.referrals_l1 = data.referrals_l1
    /\ d.referrals_l2 = data.referrals_l2
    /\ d.referrals_l3 = data.referrals_l3

\* the float y is the float x rounded to 2 fractional digits
Rounded2(y, x) ==
    y % 10 = 0 /\ y - x <= 5 /\ x - y <= 5

\* C16 as stated: ref_get_or_create after ref_save returns the parents, the
\* lists, earned and volume exactly as they were passed to ref_save.
SaveGetRoundTripExact ==
    [][\A u \in Users, s, t \in Tasks :
          (SaveThenGet(s, t, u) /\ pc'[t] # pc[t]) =>
              /\ pc'[t] = "done"
              /\ SameLinks(ret'[t], call[s].data)
              /\ ret'[t].earned_rub = call[s].data.earned_rub
              /\ ret'[t].volume_rub = call[s].data.volume_rub]_vars

\* C16, amended: ref_get_or_create after ref_save returns the parents and
\* the lists exactly as they were passed to ref_save, and earned and volume
\* rounded to 2 fractional digits, which is the value passed when that has
\* no more than 2.
SaveGetRoundTrip ==
    [][\A u \in Users, s, t \in Tasks :
          (SaveThenGet(s, t, u) /\ pc'[t] # pc[t]) =>
              /\ pc'[t] = "done"
              /\ SameLinks(ret'[t], call[s].data)
              /\ Rounded2(ret'[t].earned_rub, call[s].data.earned_rub)
              /\ Rounded2(ret'[t].volume_rub, call[s].data.volume_rub)]_vars

\* a ref_get_or_create has returned what a ref_save wrote for a user that
\* had no record: the parent, the list, earned as saved, volume rounded
SaveGetRoundTripWitness ==
    \E u \in Users, s, t \in Tasks :
        /\ referrals0[u] = NoRow
        /\ call[s].op = "ref_save" /\ call[s].user_id = u /\ pc[s] = "done"
        /\ ~call[s].enrollment
        /\ call[t].op = "ref_get_or_create" /\ call[t].user_id = u /\ pc[t] = "done"
        /\ SameLinks(ret[t], call[s].data)
        /\ ret[t].referrals_l1 = <<"u0">>
        /\ ret[t].earned_rub = 10 /\ call[s].data.earned_rub = 10
        /\ ret[t].volume_rub = 10 /\ call[s].data.volume_rub = 14

(* C17 *)

\* the UPDATE of a ref_set_earned call: on an existing record earned becomes
\* the value given and nothing else of the record changes, on a missing one
\* nothing is made; no other record and no balance row changes
SetEarnedStep ==
    \A t \in Tasks :
        (pc[t] = "ref_set_earned_execute" /\ pc'[t] = "done") =>
            LET u == call[t].user_id
            IN  /\ \A o \in Users \ {u} : referrals'[o] = referrals[o]
                /\ user_balances' = user_balances
                /\ IF referrals[u] = NoRow
                   THEN referrals'[u] = NoRow
                   ELSE /\ referrals'[u] # NoRow
                        /\ 10 * referrals'[u].earned_rub = call[t].earned_rub
                        /\ [referrals'[u] EXCEPT !.earned_rub = 0]
                              = [referrals[u] EXCEPT !.earned_rub = 0]

\* C17: ref_set_earned overwrites only earned of the given record, leaves
\* volume, parents and lists of it and every other record alone, and makes
\* no row for a user that has none.
SetEarnedOverwritesOnlyEarned ==
    [][SetEarnedStep]_vars

\* the earned of an enrolled user has been set to 0, its volume and parent
\* are what they were
SetEarnedOverwritesOnlyEarnedWitness ==
    \E t \in Tasks :
        LET u == call[t].user_id
        IN  /\ call[t].op = "ref_set_earned" /\ pc[t] = "done"
            /\ call[t].earned_rub = 0
            /\ referrals0[u] # NoRow /\ referrals0[u].earned_rub > 0
            /\ referrals[u] = [referrals0[u] EXCEPT !.earned_rub = 0]
            /\ referrals[u].volume_rub > 0 /\ referrals[u].parent1 # NULL

(* C18 *)

StoreOps ==
    {"balance_get", "balance_add_rub", "balance_add_usdt", "balance_deduct_rub",
     "balance_deduct_usdt", "ref_get_or_create", "ref_save", "ref_add_earned",
     "ref_set_earned"}

\* what a call of the store made while it is not enabled returns: zeros for
\* the two reads, failure for credit and debit, nothing for the three
\* referral writes
DisabledResult(op, v) ==
    IF op = "balance_get" THEN v = BalanceDict(0, 0)
    ELSE IF op = "ref_get_or_create" THEN ZeroValued(v)
    ELSE IF op \in {"balance_add_rub", "balance_add_usdt"} THEN v = Bool(FALSE)
    ELSE v = None

\* the step in which task t calls a coroutine of the store while
\* _db_enabled is False
DisabledCall(t) ==
    /\ ~_db_enabled
    /\ pc[t] = "idle" /\ pc'[t] # "idle"
    /\ call'[t].op \in StoreOps

\* C18: a call of any coroutine of the store made while _db_enabled is False
\* returns at once with the disabled result, without touching the pool or
\* any stored row.
DisabledStoreDegrades ==
    [][\A t \in Tasks :
          DisabledCall(t) =>
              /\ pc'[t] = "done"
              /\ DisabledResult(call'[t].op, ret'[t])
              /\ UNCHANGED <<_pool, _db_enabled, user_balances, referrals>>]_vars

(* C19 *)

\* C19: whenever is_enabled() is true, _pool is not None.
EnabledImpliesPool ==
    is_enabled => _pool # "None"

(* C20 *)

\* the returned record d is the stored row: its parents, the lists its JSON
\* texts spell, its earned and its volume
IsStoredRecord(d, row) ==
    /\ d.tag = "dict"
    /\ d.parent1 = row.parent1 /\ d.parent2 = row.parent2
    /\ d.parent3 = row.parent3
    /\ d.referrals_l1 = row.referrals_l1.json
    /\ d.referrals_l2 = row.referrals_l2.json
    /\ d.referrals_l3 = row.referrals_l3.json
    /\ d.earned_rub = 10 * row.earned_rub
    /\ d.volume_rub = 10 * row.volume_rub

\* a step of ref_get_or_create (SELECT, INSERT or second SELECT) taken when
\* the user has a record: no record changes, and if the call returns, it
\* returns that record
GetOrCreateStep ==
    \A t \in Tasks :
        LET row == referrals[call[t].user_id]
        IN  (pc[t] \in {"ref_get_or_create_select", "ref_get_or_create_insert",
                        "ref_get_or_create_reselect"}
               /\ pc'[t] # pc[t] /\ row # NoRow) =>
                  /\ referrals' = referrals
                  /\ pc'[t] = "done" =>
                        /\ IsStoredRecord(ret'[t], row)
                        /\ ~ZeroValued(ret'[t]) \/ row = DefaultRefRow

\* C20: ref_get_or_create never modifies a referral record that exists,
\* whether it existed at the call or was written by a concurrent ref_save
\* between the first SELECT and the INSERT, and it returns the stored
\* record, not the zero-valued default.
GetOrCreateKeepsRecord ==
    [][GetOrCreateStep]_vars

\* a ref_get_or_create found no record at its SELECT and is about to run its
\* INSERT on the record a ref_save has written since
GetOrCreateKeepsRecordWitness ==
    \E t, s \in Tasks :
        LET u == call[t].user_id
        IN  /\ call[t].op = "ref_get_or_create"
            /\ pc[t] = "ref_get_or_create_insert"
            /\ referrals0[u] = NoRow
            /\ call[s].op = "ref_save" /\ call[s].user_id = u /\ pc[s] = "done"
            /\ referrals[u] # NoRow /\ referrals[u].parent1 # NULL

(* C21 *)

\* the statement of a credit that goes on to return True takes the stored
\* balance of its currency up
SuccessfulCreditIncreases ==
    \A t \in Tasks, c \in Cur :
        LET u == call[t].user_id
        IN  (pc[t] = AddOp(c) \o "_execute" /\ pc'[t] = "done"
               /\ ret'[t] = Bool(TRUE)) =>
                  Field(user_balances'[u], c) > Field(user_balances[u], c)

\* the statement of a debit that goes on to return a balance takes the
\* stored balance of its currency down
SuccessfulDebitDecreases ==
    \A t \in Tasks, c \in Cur :
        LET u == call[t].user_id
        IN  (pc[t] = DeductOp(c) \o "_update" /\ pc'[t] = "done"
               /\ ret'[t].tag = "dict") =>
                  Field(user_balances'[u], c) < Field(user_balances[u], c)

\* C21: every credit that returns True has strictly increased the stored
\* balance of its currency and every debit that returns a balance has
\* strictly decreased it; a positive amount that rounds to 0 at the
\* currency's precision is not reported as a successful mutation.
SuccessMeansChange ==
    [][SuccessfulCreditIncreases /\ SuccessfulDebitDecreases]_vars

====
